---- MODULE Spec2Model ----
(***************************************************************************)
(* A model of the paginated category list engine of circumflex            *)
(* (src/bubble/list/list.go): the Model struct, its public operations,     *)
(* the Update handler, the view, the deferred front-page fetch and the     *)
(* status message timer; and of the comment formatter                      *)
(* (src/comment_parser.go).                                                *)
(*                                                                         *)
(* An item buffer is represented by its length: the engine never looks     *)
(* inside an item, every decision it takes reads len(m.items[c]) only.     *)
(***************************************************************************)
EXTENDS Integers, Sequences, FiniteSets, TLC

(* ------------------------------ bounds -------------------------------- *)

\* the largest buffer a fetch or SetItems delivers
MaxItems == 3

\* the number of status messages armed in one behaviour
MaxMessages == 2

\* how far out of range a page index is followed
Overshoot == 1

\* the number of fragments a comment body is made of
MaxFragments == 3

\* the number of comments of a comment tree
MaxComments == 5

\* the depth of the deepest comment whose author line is aligned
MaxDepth == 2

(* ----------------------- constants of the program --------------------- *)

numberOfCategories == 4

\* clx/constants/category: the enumeration front page, new, ask, show
category_FrontPage == 0
category_Show == 3

\* ItemDelegate.Height() and ItemDelegate.Spacing() of the injected delegate
delegateHeight == 2
delegateSpacing == 1

\* lipgloss.Height(m.titleView()): the header line and the "\n" after it
titleViewHeight == 2
\* lipgloss.Height(m.statusView()): the one-line "N items" status
statusViewHeight == 1

\* the heights the terminal (and a caller of SetSize) may report: with the
\* title and the status bar shown they leave -3, 6 and 9 rows for the items
Heights == {0, 9, 12}

Categories == 0 .. (numberOfCategories - 1)

\* the sizes of the buffers SetItems and the mock service deliver: none (a
\* failed fetch) or a full list; the front-page service may also deliver a
\* single story
Lengths == {0, MaxItems}
FrontPageLengths == {0, 1, MaxItems}

\* the page index is followed from MinPage to MaxPage, Overshoot pages beyond
\* the range 0 .. MaxItems - 1 of the pages a buffer can have
MaxPage == MaxItems - 1 + Overshoot
MinPage == -Overshoot

(* ------------------------------ state --------------------------------- *)

VARIABLES
    Self,               \* the fields of the Model the program holds
    statusMessage,      \* Model.statusMessage: 0 is "", k the k-th message
    statusMessageTimer, \* Model.statusMessageTimer: 0 is nil, k the k-th timer
    timers,             \* each time.Timer created so far and its command
    timeouts,           \* statusMessageTimeoutMsg in flight, by timer
    fetch,              \* position of the FetchFrontPageStories command
    lastOp,             \* the operation that produced this state
    clearedBy,          \* the timer whose expiry last cleared a message
    call                \* the last call of the comment formatter

vars == <<Self, statusMessage, statusMessageTimer, timers, timeouts,
          fetch, lastOp, clearedBy, call>>

\* the status-message state
statusVars == <<statusMessage, statusMessageTimer, timers, timeouts, clearedBy>>

\* the fields of Model
showTitle == Self.showTitle         \* Model.showTitle
showStatusBar == Self.showStatusBar \* Model.showStatusBar
disableInput == Self.disableInput   \* Model.disableInput
height == Self.height               \* Model.height
PerPage == Self.PerPage             \* Model.Paginator.PerPage
TotalPages == Self.TotalPages       \* Model.Paginator.TotalPages
Page == Self.Page                   \* Model.Paginator.Page
cursor == Self.cursor               \* Model.cursor
category == Self.category           \* Model.category
items == Self.items                 \* Model.items: category -> len(buffer)

\* the caller keeps the Model that Update returned / the method mutated
Store(m) == Self' = m

(* ------------------------- integer arithmetic ------------------------- *)

max(a, b) == IF a > b THEN a ELSE b

min(a, b) == IF a < b THEN a ELSE b

\* Go's / on int truncates toward zero
GoDiv(a, b) == IF a >= 0 THEN a \div b ELSE -((-a) \div b)

\* Go's % on int takes the sign of the dividend
GoMod(a, b) == a - b * GoDiv(a, b)

(* ----------------------------- paginator ------------------------------ *)

\* paginator.Model.SetTotalPages(n)
SetTotalPages(m, n) ==
    IF n < 1 THEN m
    ELSE [m EXCEPT !.TotalPages =
              GoDiv(n, m.PerPage) + (IF GoMod(n, m.PerPage) > 0 THEN 1 ELSE 0)]

\* paginator.Model.GetSliceBounds(length)
GetSliceBounds(m, length) ==
    [start |-> m.Page * m.PerPage,
     end |-> min(m.Page * m.PerPage + m.PerPage, length)]

\* paginator.Model.ItemsOnPage(totalItems)
ItemsOnPage(m, totalItems) ==
    IF totalItems < 1 THEN 0
    ELSE GetSliceBounds(m, totalItems).end - GetSliceBounds(m, totalItems).start

\* paginator.Model.PrevPage()
PaginatorPrevPage(m) ==
    IF m.Page > 0 THEN [m EXCEPT !.Page = m.Page - 1] ELSE m

\* paginator.Model.NextPage()
PaginatorNextPage(m) ==
    IF m.Page # m.TotalPages - 1 THEN [m EXCEPT !.Page = m.Page + 1] ELSE m

(* ------------------------------- Model -------------------------------- *)

VisibleItems(m) == m.items[m.category]

Index(m) == m.Page * m.PerPage + m.cursor

\* the rows left for the items: the height less the title and the status bar
availHeight(m) ==
    m.height - (IF m.showTitle THEN titleViewHeight ELSE 0)
             - (IF m.showStatusBar THEN statusViewHeight ELSE 0)

\* updatePagination that keeps the page index and the cursor it finds, and
\* only brings the page index back in bounds
updatePaginationNoRestore(m) ==
    LET perPage == max(1, GoDiv(availHeight(m), delegateHeight + delegateSpacing))
        pages == VisibleItems(m)
        totalPages == SetTotalPages([m EXCEPT !.PerPage = perPage],
                                    IF pages < 1 THEN 1 ELSE pages).TotalPages
    IN  [m EXCEPT !.PerPage = perPage,
                  !.TotalPages = totalPages,
                  !.Page = IF m.Page >= totalPages - 1
                           THEN max(0, totalPages - 1)
                           ELSE m.Page]

updatePagination(m) ==
    LET index == Index(m)
        perPage == max(1, GoDiv(availHeight(m), delegateHeight + delegateSpacing))
        pages == VisibleItems(m)
        totalPages == SetTotalPages([m EXCEPT !.PerPage = perPage],
                                    IF pages < 1 THEN 1 ELSE pages).TotalPages
        page == GoDiv(index, perPage)
    IN  [m EXCEPT !.PerPage = perPage,
                  !.TotalPages = totalPages,
                  !.cursor = GoMod(index, perPage),
                  !.Page = IF page >= totalPages - 1
                           THEN max(0, totalPages - 1)
                           ELSE page]

SetShowTitle(m, v) == updatePagination([m EXCEPT !.showTitle = v])

SetShowStatusBar(m, v) == updatePagination([m EXCEPT !.showStatusBar = v])

SetItems(m, i) ==
    updatePagination([m EXCEPT !.items = [m.items EXCEPT ![m.category] = i]])

\* Select with the cursor set to the index itself, the modulo forgotten
SelectNoModulo(m, index) ==
    [m EXCEPT !.Page = GoDiv(index, m.PerPage), !.cursor = index]

Select(m, index) ==
    [m EXCEPT !.Page = GoDiv(index, m.PerPage),
              !.cursor = GoMod(index, m.PerPage)]

\* CursorUp without the stop at the top
CursorUpNoStop(m) == [m EXCEPT !.cursor = m.cursor - 1]

CursorUp(m) ==
    IF m.cursor - 1 < 0 THEN [m EXCEPT !.cursor = 0]
    ELSE [m EXCEPT !.cursor = m.cursor - 1]

\* CursorDown that goes to the next page from the last row of a page, as
\* its comment says it can
CursorDownNextPage(m) ==
    LET itemsOnPage == ItemsOnPage(m, VisibleItems(m))
    IN  IF m.cursor + 1 < itemsOnPage THEN [m EXCEPT !.cursor = m.cursor + 1]
        ELSE IF m.Page < m.TotalPages - 1
             THEN [m EXCEPT !.Page = m.Page + 1, !.cursor = 0]
             ELSE [m EXCEPT !.cursor = itemsOnPage - 1]

CursorDown(m) ==
    LET itemsOnPage == ItemsOnPage(m, VisibleItems(m))
    IN  IF m.cursor + 1 < itemsOnPage THEN [m EXCEPT !.cursor = m.cursor + 1]
        ELSE [m EXCEPT !.cursor = itemsOnPage - 1]

\* value receivers: the paginator of a copy is moved, the Model is not
PrevPage(m) == LET copy == PaginatorPrevPage(m) IN m

NextPage(m) == LET copy == PaginatorNextPage(m) IN m

\* selectCategory that fetches the stories of the target category on every
\* switch
selectCategoryRefetch(m, c, stories) ==
    updatePagination(
        [m EXCEPT !.category = c,
                  !.items = [m.items EXCEPT ![c] = stories],
                  !.Page = 0])

\* stories: what mock.MockService.FetchStories returns when the buffer is empty
selectCategory(m, c, stories) ==
    LET m1 == [m EXCEPT !.category = c]
    IN  IF m1.items[c] # 0
        THEN updatePagination([m1 EXCEPT !.Page = 0])
        ELSE updatePagination(
                 [m1 EXCEPT !.items = [m1.items EXCEPT ![c] = stories],
                            !.Page = 0])

\* NextCategory that stays on the last category instead of wrapping
NextCategoryNoWrap(m, stories) ==
    IF m.category = numberOfCategories - 1
    THEN selectCategory(m, m.category, stories)
    ELSE selectCategory(m, m.category + 1, stories)

NextCategory(m, stories) ==
    IF m.category = numberOfCategories - 1
    THEN selectCategory(m, category_FrontPage, stories)
    ELSE selectCategory(m, m.category + 1, stories)

PreviousCategory(m, stories) ==
    IF m.category = category_FrontPage
    THEN selectCategory(m, category_Show, stories)
    ELSE selectCategory(m, m.category - 1, stories)

\* setSize that recomputes the pagination before it stores the new height
setSizeLate(m, h) == [updatePagination(m) EXCEPT !.height = h]

setSize(m, h) == updatePagination([m EXCEPT !.height = h])

Keys == {"CursorUp", "CursorDown", "PrevPage", "NextPage", "NextCategory",
         "PreviousCategory", "GoToStart", "GoToEnd"}

\* the case of the GoToStart key
GoToStart(m) == [m EXCEPT !.Page = 0, !.cursor = 0]

\* the GoToEnd key going to the last row of the page shown
GoToEndOfPage(m, numItems) ==
    [m EXCEPT !.cursor = ItemsOnPage(m, numItems) - 1]

\* the case of the GoToEnd key
GoToEnd(m, numItems) ==
    LET p == [m EXCEPT !.Page = m.TotalPages - 1]
    IN  [p EXCEPT !.cursor = ItemsOnPage(p, numItems) - 1]

\* msg: the key matched, or "other" for a message that is no key
handleBrowsing(m, msg, stories) ==
    LET numItems == VisibleItems(m)
        m1 == CASE msg = "CursorUp" -> CursorUp(m)
                [] msg = "CursorDown" -> CursorDown(m)
                [] msg = "PrevPage" -> PaginatorPrevPage(m)
                [] msg = "NextPage" -> PaginatorNextPage(m)
                [] msg = "NextCategory" -> NextCategory(m, stories)
                [] msg = "PreviousCategory" -> PreviousCategory(m, stories)
                [] msg = "GoToStart" -> GoToStart(m)
                [] msg = "GoToEnd" -> GoToEnd(m, numItems)
                [] OTHER -> m
        itemsOnPage == ItemsOnPage(m1, VisibleItems(m1))
    IN  IF m1.cursor > itemsOnPage - 1
        THEN [m1 EXCEPT !.cursor = max(0, itemsOnPage - 1)]
        ELSE m1

\* New(delegate, config, width, height)
New(h) ==
    updatePagination(
        [showTitle |-> TRUE, showStatusBar |-> TRUE, disableInput |-> TRUE,
         height |-> h, PerPage |-> 1, TotalPages |-> 1,
         Page |-> 0, cursor |-> 0, category |-> 0,
         items |-> [c \in Categories |-> 0]])

(* -------------------------------- View -------------------------------- *)

\* a rendered string is the sequence of its pieces: "\n" for a newline,
\* "text" for a run of visible characters without newline, "esc" for an
\* ANSI escape sequence

\* strings.Repeat(x, n), and a loop that appends x n times: nothing when n
\* is not positive (the counts given to strings.Repeat are not negative)
Repeat(x, n) == IF n <= 0 THEN <<>> ELSE [i \in 1 .. n |-> x]

\* lipgloss.Height(s): the number of lines of s
Height(s) == Cardinality({i \in 1 .. Len(s) : s[i] = "\n"}) + 1

\* lipgloss.Style.Render(s) of a style that sets colours only: s between
\* the escape sequences of the style when the terminal has a colour profile,
\* s itself when it has none
StyleRender(s, colour) == IF colour THEN <<"esc">> \o s \o <<"esc">> ELSE s

\* delegate.Render(&b, m, index, item): the Height() lines of one item
RECURSIVE delegateRender(_)
delegateRender(lines) ==
    IF lines <= 1 THEN <<"text">>
    ELSE delegateRender(lines - 1) \o <<"\n", "text">>

\* the loop of populatedView over the docs of the page, from doc i on
RECURSIVE renderDocs(_, _)
renderDocs(i, docs) ==
    IF i >= docs THEN <<>>
    ELSE delegateRender(delegateHeight)
             \o (IF i # docs - 1 THEN Repeat("\n", delegateSpacing + 1) ELSE <<>>)
             \o renderDocs(i + 1, docs)

\* items[start:end] panics when the bounds are not 0 <= start <= end <= len
SliceInRange(start, end, length) ==
    0 <= start /\ start <= end /\ end <= length

\* populatedView without the newlines that fill an under-full page
populatedViewNoFill(m, colour) ==
    LET length == VisibleItems(m)
        bounds == GetSliceBounds(m, length)
    IN  IF length = 0 THEN StyleRender(<<>>, colour)
        ELSE IF ~SliceInRange(bounds.start, bounds.end, length) THEN <<"panic">>
        ELSE renderDocs(0, bounds.end - bounds.start)

\* the body of the view; colour: the terminal has a colour profile
populatedView(m, colour) ==
    LET length == VisibleItems(m)
        bounds == GetSliceBounds(m, length)
        itemsOnPage == ItemsOnPage(m, length)
        n == (m.PerPage - itemsOnPage) * (delegateHeight + delegateSpacing)
    IN  IF length = 0 THEN StyleRender(<<>>, colour)
        ELSE IF ~SliceInRange(bounds.start, bounds.end, length) THEN <<"panic">>
        ELSE renderDocs(0, bounds.end - bounds.start)
                 \o (IF itemsOnPage < m.PerPage THEN Repeat("\n", n) ELSE <<>>)

(* ------------------------------ actions ------------------------------- *)

\* the bound on the page index: an event that would carry it further is
\* not followed
Followed(m) == m.Page \in MinPage .. MaxPage

Timers == 1 .. MaxMessages

\* the durations a status message is armed with, in seconds: negative, zero
\* and StatusMessageLifetime
Durations == {-1, 0, 1}

Init ==
    /\ \E h \in Heights : Self = New(h)
    /\ statusMessage = 0
    /\ statusMessageTimer = 0
    /\ timers = [t \in Timers |->
                    [state |-> "none", duration |-> 0, cmd |-> "none", chan |-> 0]]
    /\ timeouts = {}
    /\ fetch = "none"
    /\ lastOp = "New"
    /\ clearedBy = [timer |-> 0, message |-> 0]
    /\ call = [op |-> "none"]

\* the program's Init hands the command of FetchFrontPageStories to the runtime
IssueFetch ==
    /\ fetch = "none"
    /\ fetch' = "issued"
    /\ lastOp' = "IssueFetch"
    /\ UNCHANGED <<Self, statusVars, call>>

\* the command, on the runtime's goroutine: it stores the stories the service
\* returned in m.items[category.FrontPage] and returns fetchingFinished{},
\* which the runtime queues for Update
FetchCommand ==
    /\ fetch = "issued"
    /\ fetch' = "returned"
    /\ lastOp' = "FetchCommand"
    /\ UNCHANGED <<statusVars, call>>
    /\ \E stories \in FrontPageLengths :
           Store([Self EXCEPT !.items[category_FrontPage] = stories])

\* Update(fetchingFinished) that enables input only when stories arrived
UpdateFetchingFinishedOnSuccess ==
    /\ fetch = "returned"
    /\ fetch' = "done"
    /\ lastOp' = "fetchingFinished"
    /\ UNCHANGED <<statusVars, call>>
    /\ \E h \in Heights :
           Store([setSize(Self, h) EXCEPT
                     !.disableInput = (items[category_FrontPage] = 0)])

\* Update(fetchingFinished): the terminal reports height h
UpdateFetchingFinished ==
    /\ fetch = "returned"
    /\ fetch' = "done"
    /\ lastOp' = "fetchingFinished"
    /\ UNCHANGED <<statusVars, call>>
    /\ \E h \in Heights :
           Store([setSize(Self, h) EXCEPT !.disableInput = FALSE])

\* Update(tea.KeyMsg) for key k; a category key may fetch stories
UpdateKey(k) ==
    /\ \E stories \in (IF k \in {"NextCategory", "PreviousCategory"}
                        THEN Lengths ELSE {0}) :
           /\ Followed(handleBrowsing(Self, k, stories))
           /\ Store(handleBrowsing(Self, k, stories))
    /\ lastOp' = k
    /\ UNCHANGED <<fetch, statusVars, call>>

KeyCursorUp == UpdateKey("CursorUp")
KeyCursorDown == UpdateKey("CursorDown")
KeyPrevPage == UpdateKey("PrevPage")
KeyNextPage == UpdateKey("NextPage")
KeyNextCategory == UpdateKey("NextCategory")
KeyPreviousCategory == UpdateKey("PreviousCategory")
KeyGoToStart == UpdateKey("GoToStart")
KeyGoToEnd == UpdateKey("GoToEnd")

\* Update(spinner.TickMsg) or any other message: handleBrowsing only
UpdateOther ==
    /\ Followed(handleBrowsing(Self, "other", 0))
    /\ Store(handleBrowsing(Self, "other", 0))
    /\ lastOp' = "other"
    /\ UNCHANGED <<fetch, statusVars, call>>

\* a method of Model called by the program, outside Update
Call(m, op) ==
    /\ Followed(m)
    /\ Store(m)
    /\ lastOp' = op
    /\ UNCHANGED <<fetch, statusVars, call>>

CallCursorUp == Call(CursorUp(Self), "CursorUp")
CallCursorDown == Call(CursorDown(Self), "CursorDown")
CallPrevPage == Call(PrevPage(Self), "PrevPage")
CallNextPage == Call(NextPage(Self), "NextPage")
CallSetItems == \E i \in Lengths : Call(SetItems(Self, i), "SetItems")
CallSetSize == \E h \in Heights : Call(setSize(Self, h), "SetSize")
CallSetShowTitle == \E v \in BOOLEAN : Call(SetShowTitle(Self, v), "SetShowTitle")
CallSetShowStatusBar ==
    \E v \in BOOLEAN : Call(SetShowStatusBar(Self, v), "SetShowStatusBar")
\* Select(index) with an index of the list; ResetSelected() is Select(0)
CallSelect ==
    \E index \in 0 .. max(0, VisibleItems(Self) - 1) :
        Call(Select(Self, index), "Select")

(* --------------------------- status message --------------------------- *)

\* time.NewTimer(d) with a duration that is not positive: the timer is due at
\* once, and never due
NewTimerPositiveOnly(d) == IF d > 0 THEN "running" ELSE "stopped"

\* time.NewTimer(d): a timer whose duration is not positive is due at once
NewTimer(d) == IF d > 0 THEN "running" ELSE "due"

\* time.Timer.Stop(): a timer that has not fired never fires
Stop(ts, t) ==
    IF t # 0 /\ ts[t].state \in {"running", "due"}
    THEN [ts EXCEPT ![t].state = "stopped"]
    ELSE ts

\* NewStatusMessage(s) (d is StatusMessageLifetime, a second) and
\* NewStatusMessageWithDuration(s, d): the k-th message, its timer and the
\* command returned, which the runtime starts later
NewStatusMessage ==
    \E k \in Timers, d \in Durations :
        /\ timers[k].state = "none"
        /\ \A j \in Timers : j < k => timers[j].state # "none"
        /\ statusMessage' = k
        /\ timers' = [Stop(timers, statusMessageTimer) EXCEPT
                         ![k] = [state |-> NewTimer(d), duration |-> d,
                                 cmd |-> "created", chan |-> 0]]
        /\ statusMessageTimer' = k
        /\ lastOp' = "NewStatusMessage"
        /\ UNCHANGED <<Self, timeouts, clearedBy, fetch, call>>

\* the command of the k-th message starts on the runtime's goroutine and
\* reads m.statusMessageTimer.C through the pointer it captured: the timer of
\* its own message when the pointer is to the caller's copy of the Model,
\* the timer armed last when it is to the Model the program holds
CommandWait ==
    \E k \in Timers : \E t \in {k, statusMessageTimer} :
        /\ timers[k].state # "none"
        /\ timers[k].cmd = "created"
        /\ timers' = [timers EXCEPT ![k].cmd = "waiting", ![k].chan = t]
        /\ lastOp' = "CommandWait"
        /\ UNCHANGED <<Self, statusMessage, statusMessageTimer, timeouts,
                       clearedBy, fetch, call>>

\* the duration of timer t elapses
Elapse ==
    \E t \in Timers :
        /\ timers[t].state = "running"
        /\ timers' = [timers EXCEPT ![t].state = "due"]
        /\ lastOp' = "Elapse"
        /\ UNCHANGED <<Self, statusMessage, statusMessageTimer, timeouts,
                       clearedBy, fetch, call>>

\* timer t expires: the time is sent on its channel
TimerFire ==
    \E t \in Timers :
        /\ timers[t].state = "due"
        /\ timers' = [timers EXCEPT ![t].state = "fired"]
        /\ lastOp' = "TimerFire"
        /\ UNCHANGED <<Self, statusMessage, statusMessageTimer, timeouts,
                       clearedBy, fetch, call>>

\* a command waiting on the channel of timer t receives and returns
\* statusMessageTimeoutMsg{}, which the runtime queues for Update
CommandReturn ==
    \E k \in Timers, t \in Timers :
        /\ timers[k].cmd = "waiting"
        /\ timers[k].chan = t
        /\ timers[t].state = "fired"
        /\ timers' = [[timers EXCEPT ![t].state = "received"]
                         EXCEPT ![k].cmd = "returned"]
        /\ timeouts' = timeouts \cup {t}
        /\ lastOp' = "CommandReturn"
        /\ UNCHANGED <<Self, statusMessage, statusMessageTimer, clearedBy,
                       fetch, call>>

hideStatusMessage ==
    /\ statusMessage' = 0
    /\ timers' = Stop(timers, statusMessageTimer)
    /\ UNCHANGED statusMessageTimer

\* Update(statusMessageTimeoutMsg) for the message that the expiry of timer
\* t produced
UpdateStatusMessageTimeout ==
    \E t \in timeouts :
        /\ timeouts' = timeouts \ {t}
        /\ hideStatusMessage
        /\ Store(handleBrowsing(Self, "other", 0))
        /\ clearedBy' = [timer |-> t, message |-> statusMessage]
        /\ lastOp' = "statusMessageTimeoutMsg"
        /\ UNCHANGED <<fetch, call>>

StatusNext ==
    \/ NewStatusMessage
    \/ CommandWait
    \/ Elapse
    \/ TimerFire
    \/ CommandReturn
    \/ UpdateStatusMessageTimeout

StatusSpec == Init /\ [][StatusNext]_vars

\* the runtime runs the commands it was handed and delivers their messages,
\* and time passes
StatusLiveSpec ==
    /\ StatusSpec
    /\ WF_vars(CommandWait)
    /\ WF_vars(Elapse)
    /\ WF_vars(TimerFire)
    /\ WF_vars(CommandReturn)
    /\ WF_vars(UpdateStatusMessageTimeout)

(* -------------------------- comment formatter ------------------------- *)

\* a string is the sequence of its characters; "ESC" is the character \033
\* and "BEL" the character \a

GREEN == <<"ESC", "[", "3", "2", ";", "m">>
NORMAL == <<"ESC", "[", "0", "m">>
DIMMED == <<"ESC", "[", "2", "m">>
ITALIC == <<"ESC", "[", "3", "m">>
Link_1 == <<"ESC", "]", "8", ";", ";">>
Link_2 == <<"BEL">>
Link_3 == <<"ESC", "]", "8", ";", ";", "BEL">>
NewLine == <<"\n">>

\* s[n:]
Drop(s, n) == SubSeq(s, n + 1, Len(s))

\* strings.HasPrefix(s, old)
HasPrefix(s, old) == Len(s) >= Len(old) /\ SubSeq(s, 1, Len(old)) = old

\* strings.Replace(s, old, new, 1): the first occurrence of old
RECURSIVE ReplaceFirst(_, _, _)
ReplaceFirst(s, old, new) ==
    IF Len(s) < Len(old) THEN s
    ELSE IF HasPrefix(s, old) THEN new \o Drop(s, Len(old))
    ELSE <<Head(s)>> \o ReplaceFirst(Tail(s), old, new)

\* strings.ReplaceAll(s, old, new), and Regexp.ReplaceAllString for a
\* pattern that is a literal: the occurrences of old from left to right,
\* none overlapping another
RECURSIVE ReplaceAll(_, _, _)
ReplaceAll(s, old, new) ==
    IF Len(s) < Len(old) THEN s
    ELSE IF HasPrefix(s, old) THEN new \o ReplaceAll(Drop(s, Len(old)), old, new)
    ELSE <<Head(s)>> \o ReplaceAll(Tail(s), old, new)

replaceCharacters(input) ==
    LET s1 == ReplaceAll(input, <<"&", "#", "x", "2", "7", ";">>, <<"'">>)
        s2 == ReplaceAll(s1, <<"&", "g", "t", ";">>, <<">">>)
        s3 == ReplaceAll(s2, <<"&", "l", "t", ";">>, <<"<">>)
        s4 == ReplaceAll(s3, <<"&", "#", "x", "2", "F", ";">>, <<"/">>)
        s5 == ReplaceAll(s4, <<"&", "q", "u", "o", "t", ";">>, <<"\"">>)
    IN  ReplaceAll(s5, <<"&", "a", "m", "p", ";">>, <<"&">>)

replaceHTML(input) ==
    LET s1 == ReplaceFirst(input, <<"<", "p", ">">>, <<>>)
        s2 == ReplaceAll(s1, <<"<", "p", ">">>, NewLine)
        s3 == ReplaceAll(s2, <<"<", "i", ">">>, ITALIC)
        s4 == ReplaceAll(s3, <<"<", "/", "i", ">">>, NORMAL)
        s5 == ReplaceAll(s4,
                  <<"<", "p", "r", "e", ">", "<", "c", "o", "d", "e", ">">>,
                  DIMMED)
    IN  ReplaceAll(s5,
            <<"<", "/", "c", "o", "d", "e", ">", "<", "/", "p", "r", "e",
              ">">>,
            NORMAL)

handleHrefTag(input) ==
    LET s1 == ReplaceAll(input,
                  <<"<", "a", " ", "h", "r", "e", "f", "=", "\"">>,
                  Link_1)
        s2 == ReplaceAll(s1,
                  <<"\"", " ", "r", "e", "l", "=", "\"", "n", "o",
                    "f", "o", "l", "l", "o", "w", "\"", ">">>,
                  Link_2)
    IN  ReplaceAll(s2, <<"<", "/", "a", ">">>, Link_3)

parseComment(comment) ==
    handleHrefTag(replaceCharacters(replaceHTML(comment)))

\* the pieces the comment bodies of the model are made of: text, tags and
\* entities
Fragments ==
    {<<"x">>,
     <<"i">>,
     <<"/", "a">>,
     <<"<", "i", ">">>,
     <<"<", "/", "i", ">">>,
     <<"<", "p", ">">>,
     <<"<", "/", "a", ">">>,
     <<"<", "a", " ", "h", "r", "e", "f", "=", "\"">>,
     <<"&", "l", "t", ";">>,
     <<"&", "g", "t", ";">>,
     <<"&", "#", "x", "2", "7", ";">>,
     <<"&", "a", "m", "p", ";">>}

\* the bodies of at most n fragments
RECURSIVE Bodies(_)
Bodies(n) ==
    IF n = 0 THEN {<<>>}
    ELSE Bodies(n - 1) \cup {b \o f : b \in Bodies(n - 1), f \in Fragments}

\* bodies given whole: the body it&#x27;s <i>great</i>, a link, a code block
\* and a quotation
WholeBodies ==
    {<<"i", "t", "&", "#", "x", "2", "7", ";", "s", " ", "<",
       "i", ">", "g", "r", "e", "a", "t", "<", "/", "i", ">">>,
     <<"<", "a", " ", "h", "r", "e", "f", "=", "\"", "x", "\"",
       " ", "r", "e", "l", "=", "\"", "n", "o", "f", "o", "l",
       "l", "o", "w", "\"", ">", "x", "<", "/", "a", ">">>,
     <<"<", "p", "r", "e", ">", "<", "c", "o", "d", "e", ">",
       "x", "<", "/", "c", "o", "d", "e", ">", "<", "/", "p",
       "r", "e", ">">>,
     <<"&", "q", "u", "o", "t", ";", "x", "&", "#", "x", "2",
       "F", ";", "x", "&", "q", "u", "o", "t", ";">>}

\* parseComment(c.Comment) for a comment body
ParseComment ==
    /\ call.op = "none"
    /\ \E body \in Bodies(MaxFragments) \cup WholeBodies :
           call' = [op |-> "parseComment", in |-> body, out |-> parseComment(body)]
    /\ lastOp' = "parseComment"
    /\ UNCHANGED <<Self, statusVars, fetch>>

ParseSpec == Init /\ [][ParseComment]_vars

\* a comment tree of n comments is given by the parent of each comment
\* 2 .. n, a comment before it; comment 1 is the root, and the author of a
\* comment is named by its number
Parents(n) == {p \in [2 .. n -> 1 .. n] : \A i \in 2 .. n : p[i] < i}

\* the elements of a set of numbers in increasing order
RECURSIVE InOrder(_)
InOrder(S) ==
    IF S = {} THEN <<>>
    ELSE LET least == CHOOSE x \in S : \A y \in S : x <= y
         IN  <<least>> \o InOrder(S \ {least})

\* the Comments value of comment i: its replies are its children, in order
RECURSIVE Comments(_, _, _)
Comments(p, n, i) ==
    LET children == InOrder({c \in 2 .. n : p[c] = i})
    IN  [Author |-> ToString(i),
         Replies |-> [k \in 1 .. Len(children) |-> Comments(p, n, children[k])]]

getIndentBlock(level) == Repeat(" ", level)

\* the author with the marks of a moderator and of the original poster
markOPAndMods(author, op) ==
    [Author |-> author, mod |-> author \in {"dang", "sctb"}, OP |-> author = op]

\* prettyPrintComments that appends the block of a comment after the blocks
\* of its replies
RECURSIVE prettyPrintCommentsRepliesFirst(_, _, _, _)
prettyPrintCommentsRepliesFirst(c, commentTree, indentlevel, op) ==
    LET block == [author |-> markOPAndMods(c.Author, op),
                  indent |-> Len(getIndentBlock(indentlevel))]
        RECURSIVE replies(_, _)
        replies(i, tree) ==
            IF i > Len(c.Replies) THEN tree
            ELSE replies(i + 1,
                         prettyPrintCommentsRepliesFirst(
                             c.Replies[i], tree, indentlevel + 5, op))
    IN  replies(1, commentTree) \o <<block>>

\* the comment tree is the sequence of the blocks appended to it; a block is
\* the marked author and the indentation of its lines
RECURSIVE prettyPrintComments(_, _, _, _)
prettyPrintComments(c, commentTree, indentlevel, op) ==
    LET block == [author |-> markOPAndMods(c.Author, op),
                  indent |-> Len(getIndentBlock(indentlevel))]
        RECURSIVE replies(_, _)
        replies(i, tree) ==
            IF i > Len(c.Replies) THEN tree
            ELSE replies(i + 1,
                         prettyPrintComments(
                             c.Replies[i], tree, indentlevel + 5, op))
    IN  replies(1, commentTree \o <<block>>)

\* prettyPrintComments for a tree of n comments and an empty comment tree,
\* the root at indentation 0 (a thread) or 5; op is the root's author or
\* nobody's
PrettyPrintComments ==
    /\ call.op = "none"
    /\ \E n \in 1 .. MaxComments, op \in {"", "1"}, indentlevel \in {0, 5} :
           \E p \in Parents(n) :
               call' = [op |-> "prettyPrintComments", n |-> n, parent |-> p,
                        indentlevel |-> indentlevel,
                        out |-> prettyPrintComments(
                                    Comments(p, n, 1), <<>>, indentlevel, op)]
    /\ lastOp' = "prettyPrintComments"
    /\ UNCHANGED <<Self, statusVars, fetch>>

TreeSpec == Init /\ [][PrettyPrintComments]_vars

\* the character at position i of s is part of an escape sequence, which
\* runs from ESC to the next m
Escaped(s, i) ==
    \E j \in 1 .. i :
        s[j] = "ESC" /\ \A k \in (j + 1) .. (i - 1) : s[k] # "m"

\* term.Len(s): the number of visible characters of s
TermLen(s) == Cardinality({i \in 1 .. Len(s) : ~Escaped(s, i)})

\* getRightAlignedTimeAgo that does not take the indentation off
getRightAlignedTimeAgoNoIndent(screenWidth, author, timeAgo, indentLevel) ==
    LET numberOfSpaces == screenWidth - TermLen(author) - TermLen(timeAgo) - 6
    IN  Repeat(" ", numberOfSpaces) \o DIMMED \o timeAgo \o NORMAL \o NewLine

\* screenWidth: what terminal.Width() returns, 0 when it fails
getRightAlignedTimeAgo(screenWidth, author, timeAgo, indentLevel) ==
    LET authorLength == TermLen(author)
        timeAgoLength == TermLen(timeAgo)
        padding == 6
        numberOfSpaces ==
            screenWidth - authorLength - timeAgoLength - padding - indentLevel
    IN  Repeat(" ", numberOfSpaces) \o DIMMED \o timeAgo \o NORMAL \o NewLine

\* the widths of the terminal: none, narrower than the line, wider
Widths == {0, 5, 30, 80}

\* the authors: bob, and the marked author of the moderator dang
Authors ==
    {<<"b", "o", "b">>,
     <<"d", "a", "n", "g">> \o GREEN \o <<" ", "m", "o", "d">> \o NORMAL}

\* the ages: 3 hours ago, 1 day ago
Ages ==
    {<<"3", " ", "h", "o", "u", "r", "s", " ", "a", "g", "o">>,
     <<"1", " ", "d", "a", "y", " ", "a", "g", "o">>}

\* the indentation of the comments at the depths 0 to MaxDepth
Indents == {5 * d : d \in 0 .. MaxDepth}

\* getRightAlignedTimeAgo(markedAuthor, c.Time, indentlevel) on a terminal
\* of some width
GetRightAlignedTimeAgo ==
    /\ call.op = "none"
    /\ \E w \in Widths, a \in Authors, t \in Ages, i \in Indents :
           call' = [op |-> "getRightAlignedTimeAgo", screenWidth |-> w,
                    author |-> a, timeAgo |-> t, indentLevel |-> i,
                    out |-> getRightAlignedTimeAgo(w, a, t, i)]
    /\ lastOp' = "getRightAlignedTimeAgo"
    /\ UNCHANGED <<Self, statusVars, fetch>>

AlignSpec == Init /\ [][GetRightAlignedTimeAgo]_vars

\* fmt.Sprintf of the verb %d with a string operand: the verb does not
\* apply to a string, and the operand is printed as %!d(string=...)
SprintfD(operand) ==
    <<"%", "!", "d", "(", "s", "t", "r", "i", "n", "g", "=">> \o operand \o <<")">>

getHyperlinkText(URL, text) ==
    SprintfD(Link_1) \o SprintfD(URL) \o SprintfD(Link_2) \o SprintfD(text)
        \o SprintfD(Link_3)

\* the anchor tag of a comment body for a link to URL shown as text
AnchorTag(URL, text) ==
    <<"<", "a", " ", "h", "r", "e", "f", "=", "\"">> \o URL
        \o <<"\"", " ", "r", "e", "l", "=", "\"", "n", "o",
             "f", "o", "l", "l", "o", "w", "\"", ">">>
        \o text \o <<"<", "/", "a", ">">>

\* the destinations and the visible texts of the links
URLs ==
    {<<"x">>,
     <<"h", ":", "x">>,
     <<"x", "/", "y">>,
     <<"x", "?", "y", "=", "1">>,
     <<"x", ".", "y", "/", "m">>}
LinkTexts ==
    {<<"x">>,
     <<"a", " ", "b">>,
     <<"x", ".", "y">>,
     <<"i", "t", "e", "m", "?", "i", "d", "=", "1">>}

\* getHyperlinkText(URL, domain), as getDomainText calls it
GetHyperlinkText ==
    /\ call.op = "none"
    /\ \E URL \in URLs, text \in LinkTexts :
           call' = [op |-> "getHyperlinkText", URL |-> URL, text |-> text,
                    out |-> getHyperlinkText(URL, text)]
    /\ lastOp' = "getHyperlinkText"
    /\ UNCHANGED <<Self, statusVars, fetch>>

\* parseComment for a body that is one anchor tag
ParseAnchor ==
    /\ call.op = "none"
    /\ \E URL \in URLs, text \in LinkTexts :
           call' = [op |-> "parseAnchor", URL |-> URL, text |-> text,
                    out |-> parseComment(AnchorTag(URL, text))]
    /\ lastOp' = "parseAnchor"
    /\ UNCHANGED <<Self, statusVars, fetch>>

LinkNext ==
    \/ GetHyperlinkText
    \/ ParseAnchor

LinkSpec == Init /\ [][LinkNext]_vars

(* --------------------------- specifications --------------------------- *)

Next ==
    \/ IssueFetch
    \/ FetchCommand
    \/ UpdateFetchingFinished
    \/ KeyCursorUp
    \/ KeyCursorDown
    \/ KeyPrevPage
    \/ KeyNextPage
    \/ KeyNextCategory
    \/ KeyPreviousCategory
    \/ KeyGoToStart
    \/ KeyGoToEnd
    \/ UpdateOther
    \/ CallCursorUp
    \/ CallCursorDown
    \/ CallPrevPage
    \/ CallNextPage
    \/ CallSetItems
    \/ CallSetSize
    \/ CallSelect

Spec == Init /\ [][Next]_vars

\* the runtime runs a command it was handed and delivers the message the
\* command returned
LiveSpec ==
    Spec /\ WF_vars(FetchCommand) /\ WF_vars(UpdateFetchingFinished)

\* the operations that change an input of the pagination: the viewport, the
\* active buffer, the active category and the visibility of the chrome
PaginationNext ==
    \/ IssueFetch
    \/ FetchCommand
    \/ UpdateFetchingFinished
    \/ KeyNextCategory
    \/ KeyPreviousCategory
    \/ CallSetItems
    \/ CallSetSize
    \/ CallSetShowTitle
    \/ CallSetShowStatusBar

PaginationSpec == Init /\ [][PaginationNext]_vars

(* ------------------------------ properties ---------------------------- *)

\* the number of items on the current page of the active buffer
itemsOnCurrentPage == ItemsOnPage(Self, VisibleItems(Self))

\* C1: once input is enabled, after any sequence of operations the cursor
\* satisfies 0 <= cursor < itemsOnCurrentPage, and cursor = 0 whenever the
\* current page is empty.
C1_CursorWithinPage ==
    ~disableInput =>
        IF itemsOnCurrentPage = 0 THEN cursor = 0
        ELSE 0 <= cursor /\ cursor < itemsOnCurrentPage

\* C2: once input is enabled, after any sequence of operations the page
\* index satisfies 0 <= page < max(1, totalPages).
C2_PageWithinRange ==
    ~disableInput => 0 <= Page /\ Page < max(1, TotalPages)

CategoryKeys == {"NextCategory", "PreviousCategory"}

\* the page index and the cursor are within their ranges
SelectionInRange ==
    /\ 0 <= Page /\ Page < max(1, TotalPages)
    /\ IF itemsOnCurrentPage = 0 THEN cursor = 0
       ELSE 0 <= cursor /\ cursor < itemsOnCurrentPage

\* C3: NextCategory or PreviousCategory, with input enabled and from a state
\* whose page index and cursor are in range, leaves both the page index and
\* the cursor 0.
C3_SwitchResetsSelection ==
    [][(~disableInput /\ SelectionInRange /\ lastOp' \in CategoryKeys)
          => (Page' = 0 /\ cursor' = 0)]_vars

\* C4: the active category stays in 0..3; from every reachable state four
\* NextCategory return to the starting category, four PreviousCategory do,
\* and NextCategory followed by PreviousCategory leaves it unchanged,
\* whether the fetches on the way deliver stories (s1, s2) or not.
C4_CategoryCycle ==
    /\ category \in 0 .. 3
    /\ \A s1, s2 \in Lengths :
          /\ \A n1 \in {NextCategory(Self, s1)} :
                /\ PreviousCategory(n1, s2).category = category
                /\ \A n2 \in {NextCategory(n1, s2)} :
                      \A n3 \in {NextCategory(n2, s1)} :
                          NextCategory(n3, s2).category = category
          /\ \A p1 \in {PreviousCategory(Self, s1)} :
                \A p2 \in {PreviousCategory(p1, s2)} :
                    \A p3 \in {PreviousCategory(p2, s1)} :
                        PreviousCategory(p3, s2).category = category

\* C4 witness: NextCategory has wrapped from the last category to the first
C4_Witness ==
    /\ lastOp = "NextCategory"
    /\ category = category_FrontPage
    /\ items[category_Show] # 0

\* C5: a status message is only cleared by the expiry of its own timer.
C5_ClearedByOwnTimer ==
    clearedBy.message # 0 => clearedBy.timer = clearedBy.message

\* C6: the deferred fetch changes no item buffer: the buffers change only
\* in a step of the event loop.
C6_FetchWritesNoBuffer ==
    [][lastOp' = "FetchCommand" => items' = items]_vars

C8_CursorClamp ==
    /\ lastOp = "CursorDown" => cursor <= itemsOnCurrentPage - 1
    /\ lastOp = "CursorUp" => cursor >= 0

\* C8 witness: CursorDown left the cursor on the last row of a page of
\* several items
C8_Witness ==
    /\ lastOp = "CursorDown"
    /\ itemsOnCurrentPage >= 2
    /\ cursor = itemsOnCurrentPage - 1

C10_SelectRoundTrip ==
    \A i \in 0 .. (VisibleItems(Self) - 1) :
        LET m == Select(Self, i)
        IN  /\ m.Page = i \div PerPage
            /\ m.cursor = i % PerPage
            /\ Index(m) = i

\* C10 witness: Select chose the last item of a buffer, on a later page
C10_Witness ==
    /\ lastOp = "Select"
    /\ Page >= 1
    /\ Index(Self) = VisibleItems(Self) - 1
    /\ TotalPages * PerPage >= VisibleItems(Self)

\* the sizes a buffer handed to SetItems may have
BufferLengths == 0 .. MaxItems

\* C11: SetItems and SetSize preserve the selection: when the global index
\* before the call is an index of the (new) active buffer, Index() after the
\* call equals Index() before it, whatever itemsPerPage becomes; the page
\* index differs from index / itemsPerPage only when the old index is past
\* the end of the buffer, and it is then the last page.
C11_IndexPreserved ==
    /\ \A h \in Heights :
          \A m \in {setSize(Self, h)} :
              /\ (0 <= Index(Self) /\ Index(Self) < VisibleItems(Self))
                     => Index(m) = Index(Self)
              /\ m.Page # GoDiv(Index(Self), m.PerPage)
                     => /\ Index(Self) >= VisibleItems(m)
                        /\ m.Page = max(0, m.TotalPages - 1)
    /\ \A i \in BufferLengths :
          \A m \in {SetItems(Self, i)} :
              /\ (0 <= Index(Self) /\ Index(Self) < i)
                     => Index(m) = Index(Self)
              /\ m.Page # GoDiv(Index(Self), m.PerPage)
                     => /\ Index(Self) >= i
                        /\ m.Page = max(0, m.TotalPages - 1)

\* C11 witness: after SetSize or SetItems the selection is an item of the
\* buffer, not the first, and a SetSize changes itemsPerPage and keeps it
C11_Witness ==
    /\ lastOp \in {"SetSize", "SetItems"}
    /\ 1 <= Index(Self) /\ Index(Self) < VisibleItems(Self)
    /\ \E h \in Heights :
          /\ setSize(Self, h).PerPage # PerPage
          /\ setSize(Self, h).cursor # cursor
          /\ Index(setSize(Self, h)) = Index(Self)

\* C12: SetSize is idempotent: from every reachable state, SetSize with the
\* same dimensions twice leaves the itemsPerPage, totalPages, page index and
\* cursor that SetSize once leaves.
C12_SetSizeIdempotent ==
    \A h \in Heights :
        \A once \in {setSize(Self, h)} :
            \A twice \in {setSize(once, h)} :
                /\ twice.PerPage = once.PerPage
                /\ twice.TotalPages = once.TotalPages
                /\ twice.Page = once.Page
                /\ twice.cursor = once.cursor

\* C12 witness: SetSize has left a later page of several rows, and SetSize
\* with another height would change itemsPerPage
C12_Witness ==
    /\ lastOp = "SetSize"
    /\ Page >= 1 /\ PerPage >= 2
    /\ setSize(Self, height) = Self
    /\ \E h \in Heights : setSize(Self, h).PerPage # PerPage

\* C13: a status message armed with a duration that is not positive is
\* eventually cleared: while it is shown its timer is due or has expired,
\* it does not stay shown for ever, and processing a
\* statusMessageTimeoutMsg leaves the status message empty.
C13_ZeroDurationCleared ==
    /\ \A k \in Timers :
          (statusMessage = k /\ timers[k].duration <= 0)
              ~> (statusMessage # k)
    /\ [](\A k \in Timers :
              (statusMessage = k /\ timers[k].duration <= 0)
                  => timers[k].state \in {"due", "fired", "received"})
    /\ [][lastOp' = "statusMessageTimeoutMsg" => statusMessage' = 0]_vars

\* C13 witness: a message armed with duration 0 was cleared by the expiry of
\* its own timer
C13_Witness ==
    /\ lastOp = "statusMessageTimeoutMsg"
    /\ statusMessage = 0
    /\ clearedBy.message # 0
    /\ clearedBy.timer = clearedBy.message
    /\ timers[clearedBy.message].duration = 0

\* C14: a page change moves by exactly one page and does nothing at the
\* ends: with input enabled and from a state whose page index and cursor are
\* in range, NextPage on the last page and PrevPage on page 0 leave the page
\* index unchanged, NextPage elsewhere adds one to it and PrevPage elsewhere
\* takes one from it, for the page keys and for the methods NextPage() and
\* PrevPage().
C14_ChangePageByOne ==
    [][(~disableInput /\ SelectionInRange) =>
          /\ lastOp' = "NextPage" =>
                Page' = IF Page = TotalPages - 1 THEN Page ELSE Page + 1
          /\ lastOp' = "PrevPage" =>
                Page' = IF Page = 0 THEN Page ELSE Page - 1]_vars

PagesOfBuffer ==
    {q \in 0 .. MaxItems : q * PerPage < VisibleItems(Self)}

\* the number of lines of a full page: itemsPerPage items of delegateHeight
\* lines, delegateSpacing blank lines between two items
FullPageLines ==
    PerPage * delegateHeight + (PerPage - 1) * delegateSpacing

\* C16: the rendered body has the same number of lines on every page of a
\* non-empty buffer: that of a full page, also on a page that holds fewer
\* than itemsPerPage items.
C16_ConstantHeight ==
    \A q \in PagesOfBuffer, colour \in BOOLEAN :
        Height(populatedView([Self EXCEPT !.Page = q], colour)) = FullPageLines

\* C16 witness: the page shown is an under-full last page of a buffer of
\* several pages, and its body has the lines of a full page
C16_Witness ==
    /\ ~disableInput
    /\ Page >= 1 /\ Page \in PagesOfBuffer
    /\ 0 < itemsOnCurrentPage /\ itemsOnCurrentPage < PerPage
    /\ Height(populatedView(Self, TRUE)) = FullPageLines

\* C17: when the active buffer is empty the rendered body is a placeholder
\* that is not the empty string, whatever the terminal.
C17_EmptyPlaceholder ==
    VisibleItems(Self) = 0 =>
        \A colour \in BOOLEAN : populatedView(Self, colour) # <<>>

\* the character c occurs in the string s
Contains(s, c) == \E i \in 1 .. Len(s) : s[i] = c

\* C18: in the decoding of a comment body every tag substitution runs before
\* the entities are decoded: a body without the character < (its tag syntax,
\* if any, comes from entities such as &lt;i&gt; or &lt;/a&gt;) is decoded
\* to a text without a styling or hyperlink escape, and the body
\* it&#x27;s <i>great</i> is decoded to it's, italic on, great, italic off.
C18_TagsBeforeEntities ==
    call.op = "parseComment" =>
        /\ ~Contains(call.in, "<") => ~Contains(call.out, "ESC")
        /\ call.in = <<"i", "t", "&", "#", "x", "2", "7", ";", "s", " ">>
                         \o <<"<", "i", ">", "g", "r", "e", "a", "t">>
                         \o <<"<", "/", "i", ">">>
              => call.out = <<"i", "t", "'", "s", " ">> \o ITALIC
                                \o <<"g", "r", "e", "a", "t">> \o NORMAL

\* the depth of comment i in the tree given by the parents p
RECURSIVE Depth(_, _)
Depth(p, i) == IF i = 1 THEN 0 ELSE 1 + Depth(p, p[i])

\* comment x is comment a or one of its descendants
RECURSIVE InSubtree(_, _, _)
InSubtree(p, a, x) ==
    IF x = a THEN TRUE ELSE IF x = 1 THEN FALSE ELSE InSubtree(p, a, p[x])

\* the position of the block of comment i in the rendered tree
Position(out, i) ==
    CHOOSE k \in 1 .. Len(out) : out[k].author.Author = ToString(i)

\* C19: the comment tree is rendered depth first in pre-order, the replies
\* in input order: every comment has one block, the block of a comment
\* comes before the blocks of its replies, the blocks of a comment and of
\* all its descendants come before the block of a later sibling, and the
\* block of a comment at depth d is indented by 5 * d, counted from the
\* indentation of the root, which is 0 for a thread.
C19_PreOrder ==
    call.op = "prettyPrintComments" =>
        LET out == call.out
            n == call.n
            p == call.parent
        IN  /\ Len(out) = n
            /\ \A i \in 1 .. n :
                  \E k \in 1 .. n : out[k].author.Author = ToString(i)
            /\ \A i \in 2 .. n : Position(out, p[i]) < Position(out, i)
            /\ \A a, b \in 2 .. n :
                  (p[a] = p[b] /\ a < b) =>
                      \A x \in 1 .. n :
                          InSubtree(p, a, x) =>
                              Position(out, x) < Position(out, b)
            /\ \A i \in 1 .. n :
                  out[Position(out, i)].indent = call.indentlevel + 5 * Depth(p, i)

\* C19 witness: the root 1 has the replies 2 and 3 and the reply 2 has the
\* reply 4; the blocks are those of 1, 2, 4, 3 and the block of 4 is
\* indented by 10
C19_Witness ==
    /\ call.op = "prettyPrintComments"
    /\ call.n = 4
    /\ call.indentlevel = 0
    /\ call.parent[2] = 1 /\ call.parent[3] = 1 /\ call.parent[4] = 2
    /\ [k \in 1 .. 4 |-> call.out[k].author.Author] = <<"1", "2", "4", "3">>
    /\ call.out[3].indent = 10

\* the number of spaces a string starts with
LeadingSpaces(s) ==
    Cardinality({k \in 1 .. Len(s) : \A j \in 1 .. k : s[j] = " "})

C21_HyperlinkExact ==
    call.op \in {"getHyperlinkText", "parseAnchor"} =>
        call.out = <<"ESC", "]", "8", ";", ";">> \o call.URL \o <<"BEL">>
                       \o call.text \o <<"ESC", "]", "8", ";", ";", "BEL">>

\* C22: between two events the pagination is derived from the current
\* inputs: itemsPerPage = max(1, availableHeight / (itemHeight + itemSpacing))
\* and is at least 1, and totalPages = max(1, ceil(itemCount / itemsPerPage))
\* for the item count of the active buffer.
C22_PaginationDerived ==
    LET itemsPerPage ==
            max(1, GoDiv(availHeight(Self), delegateHeight + delegateSpacing))
        itemCount == items[category]
    IN  /\ Self.PerPage = itemsPerPage
        /\ Self.PerPage >= 1
        /\ Self.TotalPages =
               max(1, (itemCount + itemsPerPage - 1) \div itemsPerPage)

\* the cursor and page operations
CursorPageOps ==
    {"CursorUp", "CursorDown", "PrevPage", "NextPage", "GoToStart", "GoToEnd",
     "Select"}

\* C23: item buffers are only populated, never evicted, and only the targeted
\* one changes: a category switch fetches if and only if the target buffer is
\* empty (the stories of the service reach a buffer exactly then), a switch
\* to a non-empty buffer leaves every buffer unchanged, SetItems changes only
\* the active category's buffer, cursor and page operations change no
\* buffer, and a populated buffer changes only when it is replaced whole, by
\* SetItems or by the front-page fetch storing its result.
C23_BuffersOnlyPopulated ==
    [][/\ lastOp' \in CategoryKeys =>
              ((items[category'] = 0) <=>
                   (\E s1, s2 \in Lengths :
                        handleBrowsing(Self, lastOp', s1).items
                            # handleBrowsing(Self, lastOp', s2).items))
       /\ lastOp' \in CategoryKeys =>
              IF items[category'] # 0
              THEN items' = items
              ELSE \A c \in Categories \ {category'} : items'[c] = items[c]
       /\ lastOp' = "SetItems" =>
              \A c \in Categories \ {category} : items'[c] = items[c]
       /\ lastOp' \in CursorPageOps => items' = items
       /\ lastOp' \notin {"SetItems", "FetchCommand"} =>
              \A c \in Categories : items[c] # 0 => items'[c] = items[c]]_vars

C23_Witness ==
    /\ lastOp \in CategoryKeys
    /\ \A c \in Categories : items[c] = MaxItems
    /\ fetch = "done"

\* C24: the view never slices the active buffer out of range: in every
\* reachable state with a non-empty active buffer the bounds of the page
\* satisfy 0 <= start <= end <= itemCount, and every index passed to the item
\* renderer is within 0 .. itemCount - 1.
C24_RenderSliceInRange ==
    LET itemCount == items[category]
        bounds == GetSliceBounds(Self, itemCount)
    IN  itemCount # 0 =>
            /\ 0 <= bounds.start
            /\ bounds.start <= bounds.end
            /\ bounds.end <= itemCount
            /\ \A i \in 0 .. bounds.end - bounds.start - 1 :
                   i + bounds.start \in 0 .. itemCount - 1
            /\ populatedView(Self, TRUE) # <<"panic">>

====
